---- MODULE Spec2Model ----
(***************************************************************************)
(* Model of report_qweb_signer/models/ir_actions_report.py: certificate    *)
(* selection (_certificate_get), the signed-attachment cache               *)
(* (_attach_filename_get, _attach_signed_read, _attach_signed_write), the  *)
(* external signer invoker (pdf_sign_2) and the two orchestrator entry     *)
(* points (postprocess_pdf_report, _post_pdf).                             *)
(*                                                                         *)
(* Byte strings are sequences of integers 0..255; path strings are         *)
(* sequences of one-character strings; False / None is the empty sequence  *)
(* where the code only tests truthiness.                                   *)
(***************************************************************************)
EXTENDS Integers, Sequences, FiniteSets, TLC

\* ------------------------------------------------------------------ bounds
MaxCerts == 2          \* certificates configured for (company, model)
MaxRecord == 2         \* record ids are 1..MaxRecord
MaxTime == 1           \* the clock (time module) takes values 0..MaxTime
MaxAttachments == 2    \* rows of ir.attachment
MaxTmp == 2            \* distinct random names mkstemp can draw
MaxCalls == 2          \* invocations of an entry point by the host

Records == 1..MaxRecord
Times == 0..MaxTime
TmpNames == 1..MaxTmp

\* ------------------------------------------------------------ generic helpers
RECURSIVE SeqsUpTo(_, _)
SeqsUpTo(S, n) ==
    IF n = 0 THEN {<<>>}
    ELSE LET shorter == SeqsUpTo(S, n - 1)
         IN  shorter \cup {Append(s, x) : s \in {t \in shorter : Len(t) = n - 1}, x \in S}

Range(s) == {s[i] : i \in 1..Len(s)}

\* Truthiness of a Python value modelled as a sequence (bytes, str, False).
Truthy(v) == v # <<>>

\* ------------------------------------------------------------------ base64
\* base64.encodebytes / base64.decodestring, on sequences of bytes. Alphabet
\* characters are their 6-bit values 0..63.
Pad == 64
NL == 65
MAXBINSIZE == (76 \div 4) * 3

RECURSIVE b2a_base64(_)
b2a_base64(s) ==
    IF Len(s) = 0 THEN <<>>
    ELSE IF Len(s) = 1 THEN <<s[1] \div 4, (s[1] % 4) * 16, Pad, Pad>>
    ELSE IF Len(s) = 2
         THEN <<s[1] \div 4, (s[1] % 4) * 16 + s[2] \div 16, (s[2] % 16) * 4, Pad>>
    ELSE <<s[1] \div 4, (s[1] % 4) * 16 + s[2] \div 16,
           (s[2] % 16) * 4 + s[3] \div 64, s[3] % 64>>
         \o b2a_base64(SubSeq(s, 4, Len(s)))

RECURSIVE encodebytes(_)
encodebytes(s) ==
    IF Len(s) = 0 THEN <<>>
    ELSE IF Len(s) <= MAXBINSIZE THEN b2a_base64(s) \o <<NL>>
    ELSE b2a_base64(SubSeq(s, 1, MAXBINSIZE)) \o <<NL>>
         \o encodebytes(SubSeq(s, MAXBINSIZE + 1, Len(s)))

RECURSIVE a2b_base64(_)
a2b_base64(t) ==
    IF Len(t) < 4 THEN <<>>
    ELSE LET a == t[1]
             b == t[2]
             c == t[3]
             d == t[4]
         IN  IF c = Pad THEN <<a * 4 + b \div 16>>
             ELSE IF d = Pad THEN <<a * 4 + b \div 16, (b % 16) * 16 + c \div 4>>
             ELSE <<a * 4 + b \div 16, (b % 16) * 16 + c \div 4, (c % 4) * 64 + d>>
                  \o a2b_base64(SubSeq(t, 5, Len(t)))

decodestring(t) == a2b_base64(SelectSeq(t, LAMBDA x : x <= Pad))

\* ------------------------------------------------------------ path resolver
\* os.path helpers on character sequences.
RECURSIVE lstrip(_)
lstrip(p) == IF p # <<>> /\ p[1] = " " THEN lstrip(Tail(p)) ELSE p

RECURSIVE rstrip(_)
rstrip(p) ==
    IF p # <<>> /\ p[Len(p)] = " " THEN rstrip(SubSeq(p, 1, Len(p) - 1)) ELSE p

strip(p) == rstrip(lstrip(p))

isabs(p) == p # <<>> /\ p[1] = "/"

\* split a path on "/" into its components (empty components kept)
RECURSIVE SplitSlash(_, _)
SplitSlash(p, cur) ==
    IF p = <<>> THEN <<cur>>
    ELSE IF p[1] = "/" THEN <<cur>> \o SplitSlash(Tail(p), <<>>)
    ELSE SplitSlash(Tail(p), Append(cur, p[1]))

\* fold the components of an absolute path: drop "" and ".", resolve ".."
RECURSIVE Collapse(_, _)
Collapse(comps, acc) ==
    IF comps = <<>> THEN acc
    ELSE LET c == comps[1]
         IN  IF c = <<>> \/ c = <<".">> THEN Collapse(Tail(comps), acc)
             ELSE IF c = <<".", ".">>
                  THEN Collapse(Tail(comps),
                                IF acc = <<>> THEN acc ELSE SubSeq(acc, 1, Len(acc) - 1))
             ELSE Collapse(Tail(comps), Append(acc, c))

RECURSIVE JoinSlash(_)
JoinSlash(comps) ==
    IF comps = <<>> THEN <<>> ELSE <<"/">> \o comps[1] \o JoinSlash(Tail(comps))

\* os.path.normpath of an absolute path
normpath(p) ==
    LET comps == Collapse(SplitSlash(p, <<>>), <<>>)
    IN  IF comps = <<>> THEN <<"/">> ELSE JoinSlash(comps)

\* os.path.dirname(__file__): the directory of the models package
Me == <<"/", "m", "/", "o">>
CertificatePrefix == Me \o <<"/", ".", ".", "/", "s", "/", "c", "/">>

\* _normalize_filepath(path) against the set fs of existing paths; <<>> is False
normalize_filepath(path, fs) ==
    LET p1 == strip(path)
        p2 == IF ~isabs(p1) THEN CertificatePrefix \o p1 ELSE p1
        p3 == normpath(p2)
    IN  IF p3 \in fs THEN p3 ELSE <<>>

\* ------------------------------------------------------------ configuration
\* A report.certificate row. domain_set is "cert.domain is non-empty";
\* domain_ids is the extension of the evaluated domain over the records.
\* attachment is the naming rule: "unset" (no rule, caching off), "empty" (a rule
\* that evaluates to a false value), "name" (a rule of the document only),
\* "timed" (a rule that also reads the time module).
AttachmentRules == {"unset", "empty", "name", "timed"}
ReportTypes == {"qweb-pdf", "qweb-html"}
Model == "doc"

\* Sequences of record ids: duplicate-free, in increasing order.
IdSeqs ==
    {s \in SeqsUpTo(Records, MaxRecord) : \A i \in 1..Len(s) - 1 : s[i] < s[i + 1]}

\* raw path strings stored on a certificate
PathKey == <<"k">>
PathPassword == <<" ", "p", " ">>
PathAbsent == <<"/", "x">>
PathUnset == <<>>

CertDir == normpath(CertificatePrefix)
FullFs == {CertDir, CertDir \o <<"/", "k">>, CertDir \o <<"/", "p">>}

VARIABLES
    certificates,      \* search result for (company, model), configuration order
    report_type,       \* self.report_type
    fs,                \* existing non-temporary paths
    undeletable,       \* kinds of temporary file ("pdf", "signed") unlink fails on
    attachment_order,  \* _order of ir.attachment: "id", "id desc", or "unknown"
    now,               \* the clock read through the time module
    attachments,       \* rows of ir.attachment, in creation order
    tmp,               \* temporary directory: file name -> content
    pp,                \* frame of postprocess_pdf_report
    bp,                \* frame of _post_pdf
    done,              \* frame of the invocation that finished last
    calls,             \* invocations of an entry point by the host so far
    call               \* last direct call of a helper, with its result

vars == <<certificates, report_type, fs, undeletable, attachment_order, now, attachments, tmp,
          pp, bp, done, calls, call>>

\* ------------------------------------------------------- certificate matcher
\* Results of _certificate_get: the 1-based position of the matched certificate
\* in the search result, NoCertificate for False, SingletonError when
\* self.report_type is read on a recordset of several reports (ValueError).
NoCertificate == 0
SingletonError == 0 - 1

\* the search at line 61: ids of res_ids that satisfy the certificate's domain
DomainDocs(cert, res_ids) == Range(res_ids) \cap cert.domain_ids

\* line 51: the multiplicity test as written
OnlyOneViolated(cert, self_len, res_ids) == cert.allow_only_one /\ self_len > 1

RECURSIVE CertificateScan(_, _, _, _)
CertificateScan(certs, i, self_len, res_ids) ==
    IF i > Len(certs) THEN NoCertificate
    ELSE IF OnlyOneViolated(certs[i], self_len, res_ids)
         THEN CertificateScan(certs, i + 1, self_len, res_ids)
    ELSE IF certs[i].domain_set /\ DomainDocs(certs[i], res_ids) = {}
         THEN CertificateScan(certs, i + 1, self_len, res_ids)
    ELSE i

certificate_get(self_len, rtype, certs, res_ids) ==
    IF self_len > 1 THEN SingletonError
    ELSE IF rtype # "qweb-pdf" THEN NoCertificate
    ELSE IF certs = <<>> THEN NoCertificate
    ELSE CertificateScan(certs, 1, self_len, res_ids)

\* ------------------------------------------------------ signed-attachment cache
\* safe_eval(certificate.attachment, {object, time}); <<>> is a false value
EvalAttachmentRule(cert, res_id, t) ==
    CASE cert.attachment = "name" -> <<"f", res_id>>
      [] cert.attachment = "timed" -> <<"f", res_id, t>>
      [] OTHER -> <<>>

attach_filename_get(res_ids, cert, t) ==
    IF Len(res_ids) # 1 THEN <<>> ELSE EvalAttachmentRule(cert, res_ids[1], t)

\* variant: the search looks at the attachments of the wrong record
AttachmentMatches_WrongRecord(atts, filename, res_id) ==
    {i \in 1..Len(atts) : /\ atts[i].datas_fname = filename
                          /\ atts[i].res_model = Model
                          /\ atts[i].res_id = res_id + 1}

\* ir.attachment.search([...], limit=1): positions of the matching rows
AttachmentMatches(atts, filename, res_id) ==
    {i \in 1..Len(atts) : /\ atts[i].datas_fname = filename
                          /\ atts[i].res_model = Model
                          /\ atts[i].res_id = res_id}

Max(S) == CHOOSE x \in S : \A y \in S : y <= x
Min(S) == CHOOSE x \in S : \A y \in S : x <= y

\* the first match in the order of the table ("id": oldest first, "id desc":
\* newest first), 0 when there is none
AttachmentSearch(atts, order, filename, res_id) ==
    LET m == AttachmentMatches(atts, filename, res_id)
    IN  IF m = {} THEN 0 ELSE IF order = "id desc" THEN Max(m) ELSE Min(m)

\* variant: the stored datas returned without base64 decoding
attach_signed_read_Raw(res_ids, cert, atts, order, t) ==
    IF Len(res_ids) # 1 THEN <<>>
    ELSE LET filename == attach_filename_get(res_ids, cert, t)
         IN  IF ~Truthy(filename) THEN <<>>
             ELSE LET a == AttachmentSearch(atts, order, filename, res_ids[1])
                  IN  IF a # 0 THEN atts[a].datas ELSE <<>>

\* _attach_signed_read: the decoded content, or <<>> for False
attach_signed_read(res_ids, cert, atts, order, t) ==
    IF Len(res_ids) # 1 THEN <<>>
    ELSE LET filename == attach_filename_get(res_ids, cert, t)
         IN  IF ~Truthy(filename) THEN <<>>
             ELSE LET a == AttachmentSearch(atts, order, filename, res_ids[1])
                  IN  IF a # 0 THEN decodestring(atts[a].datas) ELSE <<>>

\* variant: a refused create is swallowed and False returned
attach_signed_write_Swallowed(res_ids, cert, signed, atts, t, access) ==
    IF Len(res_ids) # 1 \/ ~Truthy(attach_filename_get(res_ids, cert, t))
    THEN [attachments |-> atts, kind |-> "False", att |-> 0]
    ELSE IF signed.stream THEN [attachments |-> atts, kind |-> "TypeError", att |-> 0]
    ELSE IF ~access THEN [attachments |-> atts, kind |-> "False", att |-> 0]
    ELSE [attachments |-> Append(atts, [name |-> attach_filename_get(res_ids, cert, t),
                                        datas |-> encodebytes(signed.data),
                                        datas_fname |-> attach_filename_get(res_ids, cert, t),
                                        res_model |-> Model,
                                        res_id |-> res_ids[1]]),
          kind |-> "attachment", att |-> Len(atts) + 1]

\* variant: the bytes stored without base64 encoding
attach_signed_write_Unencoded(res_ids, cert, signed, atts, t, access) ==
    IF Len(res_ids) # 1 \/ ~Truthy(attach_filename_get(res_ids, cert, t))
    THEN [attachments |-> atts, kind |-> "False", att |-> 0]
    ELSE IF signed.stream THEN [attachments |-> atts, kind |-> "TypeError", att |-> 0]
    ELSE IF ~access THEN [attachments |-> atts, kind |-> "UserError.save", att |-> 0]
    ELSE [attachments |-> Append(atts, [name |-> attach_filename_get(res_ids, cert, t),
                                        datas |-> signed.data,
                                        datas_fname |-> attach_filename_get(res_ids, cert, t),
                                        res_model |-> Model,
                                        res_id |-> res_ids[1]]),
          kind |-> "attachment", att |-> Len(atts) + 1]

\* _attach_signed_write. signed is the buffer handed in: [stream, data], stream
\* TRUE when it is still the BytesIO object. access is FALSE when create raises
\* AccessError. Result: the new table and what the call returned or raised.
attach_signed_write(res_ids, cert, signed, atts, t, access) ==
    IF Len(res_ids) # 1 THEN [attachments |-> atts, kind |-> "False", att |-> 0]
    ELSE LET filename == attach_filename_get(res_ids, cert, t)
         IN  IF ~Truthy(filename)
             THEN [attachments |-> atts, kind |-> "False", att |-> 0]
             ELSE IF signed.stream
             THEN [attachments |-> atts, kind |-> "TypeError", att |-> 0]
             ELSE IF ~access
             THEN [attachments |-> atts, kind |-> "UserError.save", att |-> 0]
             ELSE [attachments |-> Append(atts, [name |-> filename,
                                                 datas |-> encodebytes(signed.data),
                                                 datas_fname |-> filename,
                                                 res_model |-> Model,
                                                 res_id |-> res_ids[1]]),
                   kind |-> "attachment", att |-> Len(atts) + 1]

\* -------------------------------------------------------------------- frames
\* What an invocation returned or raised. kind is "none" while it runs;
\* "bytes" (data), "attachment" (att: row of ir.attachment), "False", "default"
\* (the default pipeline's result for data) for returns; "UserError.notfound",
\* "UserError.failed" (code, err, out), "UserError.save", "TypeError",
\* "UnboundLocalError" for exceptions.
Ret(kind, data, att) ==
    [kind |-> kind, data |-> data, att |-> att, code |-> 0, err |-> "", out |-> ""]
NoRet == Ret("none", <<>>, 0)
Raised(r) == r.kind \in {"UserError.notfound", "UserError.failed", "UserError.save",
                         "TypeError", "UnboundLocalError"}

\* What an invocation has done so far: calls of _certificate_get, the filenames
\* its calls of _attach_signed_read resolved (<<>> for a false one), temporary
\* files made (by mkstemp or by the tool), calls of pdf_sign_2, processes
\* spawned, attachments created, failed unlinks.
NoHistory ==
    [matches |-> 0, lookups |-> {}, made |-> {}, invokes |-> 0, spawns |-> 0,
     creates |-> 0, unlink_errors |-> 0]

\* The local variables of one invocation of an entry point. own is the history
\* of its own statements, sub that of the invocations made on its behalf by the
\* default pipeline it calls.
IdleFrame ==
    [fn |-> "", pc |-> "idle", ids |-> <<>>, content |-> <<>>,
     bound |-> FALSE, stream |-> FALSE, data |-> <<>>,
     certificate |-> NoCertificate, pdf |-> 0,
     returncode |-> 0, err |-> "", out |-> "",
     todo |-> <<>>, res |-> NoRet, ret |-> NoRet,
     own |-> NoHistory, sub |-> NoHistory, nested |-> FALSE]

Plus(h, k) ==
    [matches |-> h.matches + k.matches, lookups |-> h.lookups \cup k.lookups,
     made |-> h.made \cup k.made, invokes |-> h.invokes + k.invokes,
     spawns |-> h.spawns + k.spawns, creates |-> h.creates + k.creates,
     unlink_errors |-> h.unlink_errors + k.unlink_errors]

\* everything done between the call of f and its return
Total(f) == Plus(f.own, f.sub)

NoCall == [op |-> "", self_len |-> 1, res_ids |-> <<>>, cert |-> 0, path |-> <<>>,
           signed |-> <<>>, result |-> 0, read |-> <<>>, kind |-> ""]

Cert(a, ds, d, rule, path, pw) ==
    [name |-> "c", allow_only_one |-> a, domain_set |-> ds, domain_ids |-> d,
     attachment |-> rule, path |-> path, password_file |-> pw]

\* Certificates the matcher is exercised on: any multiplicity flag, no domain or
\* a domain satisfied by any set of records.
MatcherCerts ==
    {Cert(a, FALSE, {}, "unset", PathKey, PathPassword) : a \in BOOLEAN}
    \cup {Cert(a, TRUE, d, "unset", PathKey, PathPassword) :
            a \in BOOLEAN, d \in SUBSET Records}

InitCommon ==
    /\ fs = FullFs
    /\ undeletable = {}
    /\ attachment_order = "id desc"
    /\ now = 0
    /\ attachments = <<>>
    /\ tmp = {}
    /\ pp = IdleFrame
    /\ bp = IdleFrame
    /\ done = IdleFrame
    /\ calls = 0
    /\ call = NoCall

\* ------------------------------------------------- specification of the matcher
InitMatcher ==
    /\ certificates \in SeqsUpTo(MatcherCerts, MaxCerts)
    /\ report_type \in ReportTypes
    /\ InitCommon

\* a direct call self._certificate_get(res_ids) on a recordset of self_len reports
CallCertificateGet ==
    \E res_ids \in IdSeqs, n \in 1..2 :
        /\ call' = [NoCall EXCEPT !.op = "_certificate_get", !.self_len = n,
                                  !.res_ids = res_ids,
                                  !.result = certificate_get(n, report_type,
                                                             certificates, res_ids)]
        /\ UNCHANGED <<certificates, report_type, fs, undeletable, attachment_order, now,
                       attachments, tmp, pp, bp, done, calls>>

NextMatcher == CallCertificateGet

SpecMatcher == InitMatcher /\ [][NextMatcher]_vars

\* What the claims call the multiplicity and the domain condition.
MultiplicityOk(cert, res_ids) == ~cert.allow_only_one \/ Len(res_ids) <= 1
DomainOk(cert, res_ids) == ~cert.domain_set \/ DomainDocs(cert, res_ids) # {}
Eligible(cert, res_ids) == MultiplicityOk(cert, res_ids) /\ DomainOk(cert, res_ids)

MatcherApplied ==
    /\ call.op = "_certificate_get"
    /\ call.self_len = 1
    /\ report_type = "qweb-pdf"

\* C3: for a templated-PDF report, _certificate_get returns the first certificate
\* in configuration order that passes both the multiplicity condition and the
\* domain condition, and False exactly when no certificate passes both.
C3_FirstEligible ==
    MatcherApplied =>
        LET ok == {i \in 1..Len(certificates) : Eligible(certificates[i], call.res_ids)}
        IN  call.result = IF ok = {} THEN NoCertificate ELSE Min(ok)

\* C4: a certificate with allow_only_one set is never the result of
\* _certificate_get when more than one record id was passed.
C4_OnlyOneSkipped ==
    (MatcherApplied /\ Len(call.res_ids) > 1 /\ call.result > 0) =>
        ~certificates[call.result].allow_only_one

\* ------------------------------------------------------ temporary directory
\* tmp is a set of <<path, content>> pairs, one per existing file.
TmpPath(n) == <<"report.tmp.", n, ".", "p", "d", "f">>
Exists(dir, path) == \E e \in dir : e[1] = path
Content(dir, path) == (CHOOSE e \in dir : e[1] = path)[2]
WriteFile(dir, path, c) == {e \in dir : e[1] # path} \cup {<<path, c>>}
Unlink(dir, path) == {e \in dir : e[1] # path}

\* variant: the signed file has one fixed name
pdf_signed_Fixed(pdf) == <<"report.tmp.", "_signed.pdf">>

\* line 129: pdfsigned = pdf[:-4] + '_signed.pdf'
pdf_signed(pdf) == SubSeq(pdf, 1, Len(pdf) - 4) \o <<"_signed.pdf">>

\* ------------------------------------------------------------- external tool
\* The unsigned documents handed in, and what the jar appends when it signs.
PdfInputs == {<<37>>, <<37, 80>>}
JSignPdf(c) == c \o <<83>>

\* One run of the jar: its exit status, whether it left an output file (signed,
\* empty, or none) and what it printed on stderr.
ToolRuns ==
    [returncode : {0}, wrote : {"signed", "empty", "none"}, err : {""}]
    \cup {[returncode |-> 1, wrote |-> "none", err |-> "e"],
          [returncode |-> 2, wrote |-> "none", err |-> ""]}
ToolStdout(run) == IF run.returncode = 0 THEN "ok" ELSE "usage"

\* ----------------------------------------------- steps shared by both paths
\* Each takes the frame f of the running entry point. (lines are those of
\* postprocess_pdf_report; _post_pdf repeats them at 285-307.)

\* the frame once it has returned or raised r
Finished(f, r) == [f EXCEPT !.pc = "done", !.ret = r]

\* 246-249: tempfile.mkstemp creates a file under a name that is not in use and
\* the rendered bytes are written to it. Names are interchangeable, so the
\* random draw is represented by the least free one; the draw is taken not to
\* repeat a name of which a file (input or signed sibling) is left over.
FreeNames(dir) ==
    {n \in TmpNames : /\ ~Exists(dir, TmpPath(n))
                      /\ ~Exists(dir, pdf_signed(TmpPath(n)))}

AfterTempFile(f, n) ==
    [f EXCEPT !.pc = "sign", !.pdf = n, !.own.made = @ \cup {TmpPath(n)}]

\* 130-135: pdf_sign_2 resolves the key store and the password file
CertificateFilesFound(cert, files) ==
    /\ Truthy(normalize_filepath(cert.path, files))
    /\ Truthy(normalize_filepath(cert.password_file, files))

\* 141-143: what the spawned jar leaves in the temporary directory
TmpAfterPopen(dir, pdf, run) ==
    CASE run.wrote = "none" -> dir
      [] run.wrote = "empty" -> WriteFile(dir, pdf_signed(pdf), <<>>)
      [] run.wrote = "signed" ->
            IF Exists(dir, pdf)
            THEN WriteFile(dir, pdf_signed(pdf), JSignPdf(Content(dir, pdf)))
            ELSE dir

\* variant: the exit status is not tested
ToolFailed_Ignored(returncode) == FALSE

\* 144: if process.returncode
ToolFailed(returncode) == returncode # 0

\* 145-148: the UserError raised for a failed run
SigningError(returncode, err, out) ==
    [Ret("UserError.failed", <<>>, 0) EXCEPT !.code = returncode, !.err = err,
                                              !.out = out]

\* 128-149: pdf_sign_2(pdf, certificate) as called at 256 / 295, when the jar
\* runs as run: the frame and the temporary directory after it
pdf_sign_2(f, dir, files, run) ==
    LET called == [f EXCEPT !.own.invokes = @ + 1]
    IN  IF ~CertificateFilesFound(certificates[f.certificate], files)
        THEN [frame |-> Finished(called, Ret("UserError.notfound", <<>>, 0)),
              tmp |-> dir]
        ELSE LET ran == [called EXCEPT
                            !.own.spawns = @ + 1,
                            !.returncode = run.returncode, !.err = run.err,
                            !.out = ToolStdout(run),
                            !.own.made = IF run.wrote = "none" THEN @
                                         ELSE @ \cup {pdf_signed(TmpPath(f.pdf))}]
             IN  [frame |-> IF ToolFailed(run.returncode)
                            THEN Finished(ran, SigningError(run.returncode, run.err,
                                                            ToolStdout(run)))
                            ELSE [ran EXCEPT !.pc = "read"],
                  tmp |-> TmpAfterPopen(dir, TmpPath(f.pdf), run)]

\* 258-260: the signed file is read if it exists
AfterRead(f, dir) ==
    LET signed == pdf_signed(TmpPath(f.pdf))
    IN  IF Exists(dir, signed)
        THEN [f EXCEPT !.pc = "cleanup", !.bound = TRUE, !.stream = FALSE,
                       !.data = Content(dir, signed)]
        ELSE [f EXCEPT !.pc = "cleanup"]

\* 265: os.unlink(fname) succeeds when the file exists and the system lets files
\* of its kind be deleted; otherwise it raises OSError, which 266-268 log
Unlinked(dir, kind, path, refused) == Exists(dir, path) /\ kind \notin refused

\* variant: the loop stops at the first file it cannot delete
TmpAfterCleanup_StopAtFirstError(dir, pdf, refused) ==
    IF ~Unlinked(dir, "pdf", pdf, refused) THEN dir
    ELSE IF Unlinked(Unlink(dir, pdf), "signed", pdf_signed(pdf), refused)
         THEN Unlink(Unlink(dir, pdf), pdf_signed(pdf))
         ELSE Unlink(dir, pdf)

\* 263-268: the loop over (pdf, signed)
TmpAfterCleanup(dir, pdf, refused) ==
    LET d1 == IF Unlinked(dir, "pdf", pdf, refused) THEN Unlink(dir, pdf) ELSE dir
    IN  IF Unlinked(d1, "signed", pdf_signed(pdf), refused)
        THEN Unlink(d1, pdf_signed(pdf)) ELSE d1

UnlinkErrors(dir, pdf, refused) ==
    (IF Unlinked(dir, "pdf", pdf, refused) THEN 0 ELSE 1)
    + (IF Unlinked(dir, "signed", pdf_signed(pdf), refused) THEN 0 ELSE 1)

AfterCleanup(f, dir, refused, nextpc) ==
    [f EXCEPT !.pc = nextpc,
              !.own.unlink_errors = @ + UnlinkErrors(dir, TmpPath(f.pdf), refused)]

\* --------------------------------------------------- orchestrator: the steps
\* The shared steps as relations between the frame f before and g after.
\* names drawn by invocations that have not finished with their files; the
\* random draw is taken not to repeat one of them
HeldNames == {f.pdf : f \in {h \in {pp, bp} : h.pc \in {"sign", "read", "cleanup"}}}

TempFile(f, g) ==
    /\ FreeNames(tmp) \ HeldNames # {}
    /\ LET n == Min(FreeNames(tmp) \ HeldNames)
       IN  /\ tmp' = WriteFile(tmp, TmpPath(n), f.content)
           /\ g = AfterTempFile(f, n)

Sign(f, g) ==
    \E run \in ToolRuns :
        LET r == pdf_sign_2(f, tmp, fs, run)
        IN  /\ g = r.frame
            /\ tmp' = r.tmp

Read(f, g) ==
    /\ g = AfterRead(f, tmp)
    /\ UNCHANGED tmp

Cleanup(f, g, nextpc) ==
    /\ g = AfterCleanup(f, tmp, undeletable, nextpc)
    /\ tmp' = TmpAfterCleanup(tmp, TmpPath(f.pdf), undeletable)

Config == <<certificates, report_type, fs, undeletable>>
Host == <<calls, call>>

Idle == pp.pc = "idle" /\ bp.pc = "idle"

\* The clock is read through the time module (line 76), having advanced or not
\* since it was last read.
ClockRead == now' \in now..MaxTime

\* The order ir.attachment rows are searched in is the host's; it is "unknown"
\* until a search has several matches and so shows it.
Orders == {"id", "id desc"}
OrderSeen(order, atts, filename, res_id) ==
    IF order = "unknown" /\ Cardinality(AttachmentMatches(atts, filename, res_id)) > 1
    THEN Orders ELSE {order}

\* ------------------------------ postprocess_pdf_report(record, buffer) 232-273
StartPostprocess(record, content, nested) ==
    [IdleFrame EXCEPT !.fn = "postprocess_pdf_report", !.pc = "match",
                      !.ids = <<record>>, !.content = content,
                      !.bound = TRUE, !.stream = TRUE, !.data = content,
                      !.nested = nested]

CallPostprocess ==
    \E record \in Records, content \in PdfInputs :
        /\ Idle
        /\ calls < MaxCalls
        /\ calls' = calls + 1
        /\ pp' = StartPostprocess(record, content, FALSE)
        /\ done' = IdleFrame
        /\ UNCHANGED <<Config, attachment_order, now, attachments, tmp, bp, call>>

\* variant: every certificate is taken to cache its output
CachesOutput_Always(cert) == TRUE

\* certificate.attachment is set: the certificate caches its signed output
CachesOutput(cert) == cert.attachment # "unset"

\* 234, and the branch taken at 235 / 244
PostprocessMatch(f) ==
    LET cert == certificate_get(1, report_type, certificates, f.ids)
    IN  [f EXCEPT !.certificate = cert, !.own.matches = @ + 1,
                  !.pc = IF cert = NoCertificate THEN "super"
                         ELSE IF CachesOutput(certificates[cert]) THEN "lookup"
                         ELSE "tempfile"]

PP_Match ==
    /\ pp.pc = "match"
    /\ pp' = PostprocessMatch(pp)
    /\ UNCHANGED <<Config, attachment_order, now, attachments, tmp, bp, done, Host>>

\* variant: the cached content is never used
AfterLookup_Skipped(f, atts, order, t) ==
    [f EXCEPT !.own.lookups = @ \cup {attach_filename_get(f.ids, certificates[f.certificate], t)},
              !.pc = "tempfile"]

\* 236-243
AfterLookup(f, atts, order, t) ==
    LET cert == certificates[f.certificate]
        signed_content == attach_signed_read(f.ids, cert, atts, order, t)
        looked == [f EXCEPT !.own.lookups = @ \cup {attach_filename_get(f.ids, cert, t)}]
    IN  IF Truthy(signed_content)
        THEN Finished(looked, Ret("bytes", signed_content, 0))
        ELSE [looked EXCEPT !.pc = "tempfile"]

PP_Lookup ==
    /\ pp.pc = "lookup"
    /\ ClockRead
    /\ attachment_order' \in
           OrderSeen(attachment_order, attachments,
                     attach_filename_get(pp.ids, certificates[pp.certificate], now'),
                     pp.ids[1])
    /\ pp' = AfterLookup(pp, attachments, attachment_order', now')
    /\ UNCHANGED <<Config, attachments, tmp, bp, done, Host>>

PP_TempFile ==
    /\ pp.pc = "tempfile"
    /\ TempFile(pp, pp')
    /\ UNCHANGED <<Config, attachment_order, now, attachments, bp, done, Host>>

PP_Sign ==
    /\ pp.pc = "sign"
    /\ Sign(pp, pp')
    /\ UNCHANGED <<Config, attachment_order, now, attachments, bp, done, Host>>

PP_Read ==
    /\ pp.pc = "read"
    /\ Read(pp, pp')
    /\ UNCHANGED <<Config, attachment_order, now, attachments, bp, done, Host>>

PP_Cleanup ==
    /\ pp.pc = "cleanup"
    /\ Cleanup(pp, pp', IF CachesOutput(certificates[pp.certificate]) THEN "store"
                        ELSE "super")
    /\ UNCHANGED <<Config, attachment_order, now, attachments, bp, done, Host>>

\* 269-271: return self._attach_signed_write([record.id], certificate, buffer)
AfterStore(f, w) ==
    Finished([f EXCEPT !.own.creates = IF w.kind = "attachment" THEN @ + 1 ELSE @],
             Ret(w.kind, IF w.kind = "attachment" THEN f.data ELSE <<>>, w.att))

PP_Store ==
    /\ pp.pc = "store"
    /\ Len(attachments) < MaxAttachments
    /\ ClockRead
    /\ \E access \in BOOLEAN :
          LET w == attach_signed_write(pp.ids, certificates[pp.certificate],
                                       [stream |-> pp.stream, data |-> pp.data],
                                       attachments, now', access)
          IN  /\ attachments' = w.attachments
              /\ pp' = AfterStore(pp, w)
    /\ UNCHANGED <<Config, attachment_order, tmp, bp, done, Host>>

\* 272-273: super().postprocess_pdf_report(record, io.BytesIO(buffer)); BytesIO
\* of a stream raises TypeError
AfterSuperPostprocess(f) ==
    IF f.stream THEN Finished(f, Ret("TypeError", <<>>, 0))
    ELSE Finished(f, Ret("default", f.data, 0))

PP_Super ==
    /\ pp.pc = "super"
    /\ pp' = AfterSuperPostprocess(pp)
    /\ UNCHANGED <<Config, attachment_order, now, attachments, tmp, bp, done, Host>>

\* the history of a callee added to what was done on the caller's behalf
Absorb(f, callee) == [f EXCEPT !.sub = Plus(@, Total(callee))]

\* the invocation leaves: to the host, or back into the default pipeline that
\* called it from _post_pdf (an exception passes through the pipeline)
PP_Exit ==
    /\ pp.pc = "done"
    /\ done' = pp
    /\ pp' = IdleFrame
    /\ bp' = IF pp.nested
             THEN [Absorb(bp, pp) EXCEPT
                      !.pc = IF Raised(pp.ret) THEN "done" ELSE "super",
                      !.ret = IF Raised(pp.ret) THEN pp.ret ELSE @]
             ELSE bp
    /\ UNCHANGED <<Config, attachment_order, now, attachments, tmp, Host>>

\* ------------------ _post_pdf(save_in_attachment, pdf_content, res_ids) 275-309
\* content <<>> is pdf_content=None. hook says whether the default pipeline
\* (super()._post_pdf, 277-278) postprocesses each record of res_ids, which it
\* does through self.postprocess_pdf_report when the report saves attachments.
StartPostPdf(content, res_ids, hook) ==
    [IdleFrame EXCEPT !.fn = "_post_pdf", !.pc = "super", !.ids = res_ids,
                      !.content = content,
                      !.todo = IF hook /\ Truthy(content) THEN res_ids ELSE <<>>]

CallPostPdf ==
    \E content \in PdfInputs \cup {<<>>}, res_ids \in IdSeqs, hook \in BOOLEAN :
        /\ Idle
        /\ calls < MaxCalls
        /\ calls' = calls + 1
        /\ bp' = StartPostPdf(content, res_ids, hook)
        /\ done' = IdleFrame
        /\ UNCHANGED <<Config, attachment_order, now, attachments, tmp, pp, call>>

\* the default pipeline calls self.postprocess_pdf_report for the next record
BP_SuperHook ==
    /\ bp.pc = "super"
    /\ bp.todo # <<>>
    /\ pp.pc = "idle"
    /\ pp' = StartPostprocess(Head(bp.todo), bp.content, TRUE)
    /\ bp' = [bp EXCEPT !.pc = "inner", !.todo = Tail(@)]
    /\ done' = IdleFrame
    /\ UNCHANGED <<Config, attachment_order, now, attachments, tmp, Host>>

\* variant: the guard accepts several record ids
SignsInBatch_AnyIds(content, res_ids) == Truthy(content) /\ Len(res_ids) >= 1

\* 280: if pdf_content and len(res_ids) == 1
SignsInBatch(content, res_ids) == Truthy(content) /\ Len(res_ids) = 1

\* 277-280: res is what the default pipeline returns; then the guard
AfterSuperPostPdf(f) ==
    [f EXCEPT !.pc = IF SignsInBatch(f.content, f.ids) THEN "match" ELSE "return",
              !.res = Ret("default", f.content, 0)]

BP_SuperReturn ==
    /\ bp.pc = "super"
    /\ bp.todo = <<>>
    /\ bp' = AfterSuperPostPdf(bp)
    /\ UNCHANGED <<Config, attachment_order, now, attachments, tmp, pp, done, Host>>

\* variant: a cached copy found for the record is returned without signing
PostPdfMatch_Cached(f) ==
    LET cert == certificate_get(1, report_type, certificates, f.ids)
        cached == IF cert = NoCertificate THEN <<>>
                  ELSE attach_signed_read(f.ids, certificates[cert], attachments,
                                          attachment_order, now)
    IN  IF Truthy(cached)
        THEN [f EXCEPT !.certificate = cert, !.own.matches = @ + 1, !.pc = "return",
                       !.res = Ret("bytes", cached, 0)]
        ELSE [f EXCEPT !.certificate = cert, !.own.matches = @ + 1,
                       !.pc = IF cert = NoCertificate THEN "return" ELSE "tempfile"]

\* 281-283
PostPdfMatch(f) ==
    LET cert == certificate_get(1, report_type, certificates, f.ids)
    IN  [f EXCEPT !.certificate = cert, !.own.matches = @ + 1,
                  !.pc = IF cert = NoCertificate THEN "return" ELSE "tempfile"]

BP_Match ==
    /\ bp.pc = "match"
    /\ bp' = PostPdfMatch(bp)
    /\ UNCHANGED <<Config, attachment_order, now, attachments, tmp, pp, done, Host>>

BP_TempFile ==
    /\ bp.pc = "tempfile"
    /\ TempFile(bp, bp')
    /\ UNCHANGED <<Config, attachment_order, now, attachments, pp, done, Host>>

BP_Sign ==
    /\ bp.pc = "sign"
    /\ Sign(bp, bp')
    /\ UNCHANGED <<Config, attachment_order, now, attachments, pp, done, Host>>

BP_Read ==
    /\ bp.pc = "read"
    /\ Read(bp, bp')
    /\ UNCHANGED <<Config, attachment_order, now, attachments, pp, done, Host>>

BP_Cleanup ==
    /\ bp.pc = "cleanup"
    /\ Cleanup(bp, bp', "assign")
    /\ UNCHANGED <<Config, attachment_order, now, attachments, pp, done, Host>>

\* 308: res = buffer; buffer is unbound when the signed file did not exist
AfterAssign(f) ==
    IF f.bound THEN [f EXCEPT !.pc = "return", !.res = Ret("bytes", f.data, 0)]
    ELSE Finished(f, Ret("UnboundLocalError", <<>>, 0))

BP_Assign ==
    /\ bp.pc = "assign"
    /\ bp' = AfterAssign(bp)
    /\ UNCHANGED <<Config, attachment_order, now, attachments, tmp, pp, done, Host>>

\* 309: return res
BP_Return ==
    /\ bp.pc = "return"
    /\ bp' = Finished(bp, bp.res)
    /\ UNCHANGED <<Config, attachment_order, now, attachments, tmp, pp, done, Host>>

BP_Exit ==
    /\ bp.pc = "done"
    /\ done' = bp
    /\ bp' = IdleFrame
    /\ UNCHANGED <<Config, attachment_order, now, attachments, tmp, pp, Host>>

\* ------------------------------------------ specification of the orchestrator
\* Certificates the entry points are exercised on: each naming rule with the
\* key store and password file in place, one whose key store is absent, one
\* restricted by a domain to record 1.
OrchestratorCerts ==
    {Cert(TRUE, FALSE, {}, rule, PathKey, PathPassword) : rule \in AttachmentRules}
    \cup {Cert(TRUE, FALSE, {}, "name", PathAbsent, PathPassword),
          Cert(TRUE, TRUE, {1}, "name", PathKey, PathPassword)}

\* No certificate, one certificate, or a domain-restricted certificate followed
\* by another one (the second is reached only when the first is skipped).
OrchestratorConfigs ==
    {<<>>} \cup {<<c>> : c \in OrchestratorCerts}
    \cup {<<Cert(TRUE, TRUE, {1}, "name", PathKey, PathPassword), c>> :
            c \in {Cert(FALSE, FALSE, {}, rule, PathKey, PathPassword) :
                      rule \in {"unset", "timed"}}}

Init ==
    /\ certificates \in OrchestratorConfigs
    /\ report_type \in ReportTypes
    /\ fs = FullFs
    /\ undeletable \in SUBSET {"pdf", "signed"}
    /\ attachment_order = "unknown"
    /\ now = 0
    /\ attachments = <<>>
    /\ tmp = {}
    /\ pp = IdleFrame
    /\ bp = IdleFrame
    /\ done = IdleFrame
    /\ calls = 0
    /\ call = NoCall

Next ==
    \/ CallPostprocess
    \/ PP_Match
    \/ PP_Lookup
    \/ PP_TempFile
    \/ PP_Sign
    \/ PP_Read
    \/ PP_Cleanup
    \/ PP_Store
    \/ PP_Super
    \/ PP_Exit
    \/ CallPostPdf
    \/ BP_SuperHook
    \/ BP_SuperReturn
    \/ BP_Match
    \/ BP_TempFile
    \/ BP_Sign
    \/ BP_Read
    \/ BP_Cleanup
    \/ BP_Assign
    \/ BP_Return
    \/ BP_Exit

Spec == Init /\ [][Next]_vars

\* --------------------------------------------------- specification of the cache
\* Byte strings handed to the cache: empty, padded by two and by one character
\* in base64, and one longer than a line of base64 output.
CacheBytes == {<<>>, <<255>>, <<37, 80>>, [i \in 1..(MAXBINSIZE + 1) |-> i]}

\* Record ids handed to the cache: one record, another one, several records.
CacheIds == {<<1>>, <<2>>, <<1, 2>>}

\* One certificate with a naming rule; either search order of ir.attachment.
InitCache ==
    /\ certificates \in {<<Cert(FALSE, FALSE, {}, rule, PathKey, PathPassword)>> :
                            rule \in AttachmentRules \ {"unset"}}
    /\ report_type = "qweb-pdf"
    /\ fs = FullFs
    /\ undeletable = {}
    /\ attachment_order \in Orders
    /\ now = 0
    /\ attachments = <<>>
    /\ tmp = {}
    /\ pp = IdleFrame
    /\ bp = IdleFrame
    /\ done = IdleFrame
    /\ calls = 0
    /\ call = NoCall

\* a direct call self._attach_signed_write(res_ids, certificate, signed)
CallAttachSignedWrite ==
    \E res_ids \in CacheIds, signed \in CacheBytes, access \in BOOLEAN :
        /\ Len(attachments) < MaxAttachments
        /\ ClockRead
        /\ LET w == attach_signed_write(res_ids, certificates[1],
                                        [stream |-> FALSE, data |-> signed],
                                        attachments, now', access)
           IN  /\ attachments' = w.attachments
               /\ call' = [NoCall EXCEPT !.op = "_attach_signed_write",
                                         !.res_ids = res_ids, !.cert = 1,
                                         !.signed = signed, !.kind = w.kind,
                                         !.result = w.att]
        /\ UNCHANGED <<Config, attachment_order, tmp, pp, bp, done, calls>>

\* followed by a direct call self._attach_signed_read(res_ids, certificate) with
\* the same arguments
CallAttachSignedRead ==
    /\ call.op = "_attach_signed_write"
    /\ ClockRead
    /\ call' = [call EXCEPT !.op = "_attach_signed_read",
                            !.read = attach_signed_read(call.res_ids, certificates[1],
                                                        attachments, attachment_order,
                                                        now')]
    /\ UNCHANGED <<Config, attachment_order, attachments, tmp, pp, bp, done, calls>>

NextCache ==
    \/ CallAttachSignedWrite
    \/ CallAttachSignedRead

SpecCache == InitCache /\ [][NextCache]_vars

\* a lookup has followed a store for one record id
StoreThenLookup ==
    /\ call.op = "_attach_signed_read"
    /\ Len(call.res_ids) = 1

\* C7 as claimed: for every certificate, single record id and byte string,
\* _attach_signed_write followed by _attach_signed_read returns exactly the
\* bytes stored.
C7_RoundTrip == StoreThenLookup => call.read = call.signed

\* C7 amended: when _attach_signed_write created the attachment and the
\* following _attach_signed_read resolves the same filename and finds that
\* attachment first among those of the same filename, model and record, the
\* lookup returns exactly the bytes stored.
C7_RoundTripOfCreated ==
    (StoreThenLookup /\ call.kind = "attachment")
    => LET filename == attach_filename_get(call.res_ids, certificates[call.cert], now)
           m == AttachmentMatches(attachments, filename, call.res_ids[1])
           found == IF attachment_order = "id desc" THEN Max(m) ELSE Min(m)
       IN  (attachments[call.result].datas_fname = filename /\ found = call.result)
           => call.read = call.signed

C7_Witness ==
    /\ StoreThenLookup
    /\ call.kind = "attachment"
    /\ Len(call.signed) > MAXBINSIZE
    /\ call.read = call.signed
    /\ attachments[call.result].datas_fname
         = attach_filename_get(call.res_ids, certificates[call.cert], now)

\* ------------------------------------------- properties of the orchestrator
\* An invocation has just returned or raised: its frame is in done and no
\* statement that touches the temporary directory has run since.
JustEnded ==
    /\ done.pc = "done"
    /\ pp.pc = "idle"
    /\ bp.own.made = {}

\* done is a finished postprocess_pdf_report whose certificate matched
PostprocessEnded ==
    /\ done.pc = "done"
    /\ done.fn = "postprocess_pdf_report"
    /\ done.certificate # NoCertificate

\* the rows of ir.attachment that existed when the invocation of frame f began
PriorRows(f) == 1..(Len(attachments) - f.own.creates)

\* C1: once an invocation of either entry point has returned or raised, however
\* it ended, no temporary file it created (the input PDF or its signed sibling)
\* exists on disk. Stated for a system that refuses no deletion.
C1_TempFilesRemoved ==
    (JustEnded /\ undeletable = {}) =>
        \A path \in Total(done).made : ~Exists(tmp, path)

\* C2: when the matched certificate's tool run exits with a nonzero status, the
\* entry point that ran it ends in the signing error carrying the exit code and
\* both captured streams; it returns nothing, creates no attachment and spawns
\* the tool once only; raised inside _post_pdf's default pipeline, the error
\* is what _post_pdf ends in.
C2_NonzeroExitRaises ==
    /\ \A f \in {pp, bp, done} :
          f.returncode # 0 =>
              /\ f.pc = "done"
              /\ f.ret.kind = "UserError.failed"
              /\ f.ret.code = f.returncode
              /\ f.ret.err = f.err
              /\ f.ret.out = f.out
              /\ f.ret.data = <<>>
              /\ f.own.spawns = 1
              /\ f.own.creates = 0
    /\ (done.nested /\ done.returncode # 0) =>
          /\ bp.pc = "done"
          /\ bp.ret = done.ret
          /\ bp.own.spawns = 0

C2_Witness ==
    /\ done.fn = "_post_pdf"
    /\ done.returncode = 2
    /\ done.ret.kind = "UserError.failed"
    /\ done.ret.code = 2
    /\ done.ret.out = "usage"

\* C5 as claimed: in postprocess_pdf_report, when the certificate caches output
\* and an attachment exists for the record under the filename looked up, the
\* lookup ends the invocation with the cached bytes, no temporary file having
\* been created and no process spawned.
C5_CachedCopyReturned ==
    [][(pp.pc = "lookup"
        /\ AttachmentMatches(attachments,
                             attach_filename_get(pp.ids, certificates[pp.certificate], now'),
                             pp.ids[1]) # {})
       => /\ pp'.pc = "done"
          /\ pp'.ret.kind = "bytes"
          /\ pp'.own.made = {}
          /\ pp'.own.spawns = 0
          /\ tmp' = tmp]_vars

\* C5 amended: when the certificate caches output and the attachment the lookup
\* finds for the record has non-empty content, the lookup ends the invocation
\* with exactly that content, no temporary file having been created and no
\* process spawned; and an invocation with a caching certificate creates a
\* temporary file only after its lookup.
C5_NonEmptyCachedCopyReturned ==
    [][/\ (pp.pc = "lookup") =>
            LET filename == attach_filename_get(pp.ids, certificates[pp.certificate], now')
                m == AttachmentMatches(attachments, filename, pp.ids[1])
                found == IF attachment_order' = "id desc" THEN Max(m) ELSE Min(m)
            IN  (m # {} /\ decodestring(attachments[found].datas) # <<>>)
                => /\ pp'.pc = "done"
                   /\ pp'.ret = Ret("bytes", decodestring(attachments[found].datas), 0)
                   /\ pp'.own.made = {}
                   /\ pp'.own.spawns = 0
                   /\ pp'.own.invokes = 0
                   /\ tmp' = tmp
       /\ (pp'.certificate # NoCertificate /\ pp'.own.made # {}
           /\ CachesOutput(certificates[pp'.certificate]))
            => pp'.own.lookups # {}]_vars

C5_Witness ==
    /\ PostprocessEnded
    /\ done.ret.kind = "bytes"
    /\ done.ret.data = JSignPdf(<<37>>)
    /\ done.own.lookups # {}
    /\ done.own.made = {}
    /\ tmp = {}

\* C6 as claimed: with a caching certificate, once an earlier call has signed
\* and stored an attachment for the record, a further call for the record
\* returns stored bytes and does not call the signer.
C6_SecondCallUsesCache ==
    (PostprocessEnded /\ CachesOutput(certificates[done.certificate])
     /\ \E a \in PriorRows(done) : attachments[a].res_id = done.ids[1])
    => /\ done.ret.kind = "bytes"
       /\ done.own.invokes = 0
       /\ \E a \in PriorRows(done) :
             /\ attachments[a].res_id = done.ids[1]
             /\ done.ret.data = decodestring(attachments[a].datas)

\* C6 amended: with a caching certificate, once an earlier call has signed and
\* stored an attachment for the record, a further call for the record whose
\* naming rule yields the filename of a stored attachment, the first such
\* attachment in search order being non-empty, returns exactly its bytes (the
\* signed form of an input) and neither calls the signer nor stores anything.
C6_SameFilenameUsesCache ==
    (PostprocessEnded /\ CachesOutput(certificates[done.certificate]))
    => \A filename \in done.own.lookups :
          LET m == {a \in PriorRows(done) :
                        /\ attachments[a].datas_fname = filename
                        /\ attachments[a].res_model = Model
                        /\ attachments[a].res_id = done.ids[1]}
              found == IF attachment_order = "id desc" THEN Max(m) ELSE Min(m)
          IN  (m # {} /\ decodestring(attachments[found].datas) # <<>>)
              => /\ done.ret = Ret("bytes", decodestring(attachments[found].datas), 0)
                 /\ done.ret.data \in {JSignPdf(c) : c \in PdfInputs}
                 /\ done.own.invokes = 0
                 /\ done.own.spawns = 0
                 /\ done.own.creates = 0

C6_Witness ==
    /\ PostprocessEnded
    /\ calls = 2
    /\ Len(attachments) = 1
    /\ done.own.creates = 0
    /\ done.own.invokes = 0
    /\ done.ret.data = JSignPdf(<<37, 80>>)

\* C8: when the matched certificate has caching disabled, every
\* postprocess_pdf_report request, repeated or not, performs no attachment
\* lookup, calls the signer once (spawning the tool when the certificate's
\* files resolve) and creates no attachment; with no caching certificate
\* configured the attachment table stays empty.
C8_NoCacheWhenDisabled ==
    /\ (PostprocessEnded /\ certificates[done.certificate].attachment = "unset")
       => /\ done.own.lookups = {}
          /\ done.own.invokes = 1
          /\ (CertificateFilesFound(certificates[done.certificate], fs)
              => done.own.spawns = 1)
          /\ done.own.creates = 0
          /\ done.ret.kind # "attachment"
    /\ (\A i \in 1..Len(certificates) : certificates[i].attachment = "unset")
       => attachments = <<>>

C8_Witness ==
    /\ PostprocessEnded
    /\ certificates[done.certificate].attachment = "unset"
    /\ calls = 2
    /\ done.own.spawns = 1
    /\ done.ret = Ret("default", JSignPdf(done.content), 0)

\* C9: in postprocess_pdf_report, a normal return after a successful signing
\* (exit status 0, signed file read) keeps the signed bytes: with caching
\* enabled they are stored as an attachment, which is returned; with caching
\* disabled they are returned.
C9_SignedBytesKept ==
    (PostprocessEnded /\ done.own.spawns = 1 /\ done.returncode = 0
     /\ ~done.stream /\ ~Raised(done.ret))
    => IF CachesOutput(certificates[done.certificate])
       THEN /\ done.ret.kind = "attachment"
            /\ done.ret.att \in 1..Len(attachments)
            /\ decodestring(attachments[done.ret.att].datas) = done.data
       ELSE done.ret = Ret("default", done.data, 0)

\* C10 as claimed: _post_pdf called with no or with several record ids returns
\* the default pipeline's result unchanged, and between its call and its return
\* the matcher is not called, no temporary file is created and no process is
\* spawned.
C10_BatchSkipsSigning ==
    (done.pc = "done" /\ done.fn = "_post_pdf" /\ Len(done.ids) # 1)
    => /\ done.ret = Ret("default", done.content, 0)
       /\ Total(done).matches = 0
       /\ Total(done).made = {}
       /\ Total(done).spawns = 0

\* C10 amended: _post_pdf called with no or with several record ids returns the
\* default pipeline's result unchanged whenever that pipeline returns, and its
\* own statements call no matcher, create no temporary file and spawn no
\* process; matching and signing happen in it only inside the calls of
\* postprocess_pdf_report the default pipeline makes, whose exception it ends in.
C10_BatchOwnStepsSkipSigning ==
    (done.pc = "done" /\ done.fn = "_post_pdf" /\ Len(done.ids) # 1)
    => /\ done.own = NoHistory
       /\ done.certificate = NoCertificate
       /\ IF Raised(done.ret) THEN done.sub.matches > 0
          ELSE done.ret = Ret("default", done.content, 0)
       /\ (done.sub # NoHistory => done.ids # <<>>)

C10_Witness ==
    /\ done.pc = "done"
    /\ done.fn = "_post_pdf"
    /\ Len(done.ids) = 2
    /\ done.sub.spawns = 2
    /\ done.ret = Ret("default", done.content, 0)

\* done is a finished _post_pdf for one record id with rendered bytes
BatchOfOneEnded ==
    /\ done.pc = "done"
    /\ done.fn = "_post_pdf"
    /\ Len(done.ids) = 1
    /\ Truthy(done.content)

\* the attachments a lookup for the record of frame f with certificate c matches now
CachedRows(f, c) ==
    AttachmentMatches(attachments, attach_filename_get(f.ids, certificates[c], now),
                      f.ids[1])

\* C11 as claimed: in _post_pdf with one record id and rendered bytes, when the
\* matched certificate caches output and a (non-empty) cached signed copy
\* exists for the record, _post_pdf's signing does not call the signer and the
\* result is the cached bytes.
C11_BatchUsesCache ==
    (BatchOfOneEnded /\ done.certificate # NoCertificate
     /\ certificates[done.certificate].attachment # "unset"
     /\ CachedRows(done, done.certificate) # {}
     /\ \A a \in CachedRows(done, done.certificate) :
           decodestring(attachments[a].datas) # <<>>)
    => /\ done.own.invokes = 0
       /\ done.ret.kind = "bytes"
       /\ \E a \in CachedRows(done, done.certificate) :
             done.ret.data = decodestring(attachments[a].datas)

\* C11 amended: in _post_pdf with one record id and rendered bytes, the
\* statements of _post_pdf never consult the cache: whenever a certificate
\* matched they call the signer once, cached copy or not, and store nothing;
\* a normal return carries the bytes read from the signed file.
C11_BatchNeverUsesCache ==
    (BatchOfOneEnded /\ done.own.matches = 1 /\ done.certificate # NoCertificate)
    => /\ done.own.lookups = {}
       /\ done.own.invokes = 1
       /\ done.own.creates = 0
       /\ (~Raised(done.ret) =>
              /\ done.bound
              /\ done.ret = Ret("bytes", done.data, 0)
              /\ done.data \in {JSignPdf(done.content), <<>>})

C11_Witness ==
    /\ BatchOfOneEnded
    /\ done.certificate # NoCertificate
    /\ CachedRows(done, done.certificate) # {}
    /\ done.sub = NoHistory
    /\ done.own.spawns = 1
    /\ done.ret = Ret("bytes", JSignPdf(done.content), 0)

\* C12: in postprocess_pdf_report, when _certificate_get yields no certificate,
\* the result is the default postprocessing of the unchanged input bytes, and
\* the invocation creates no temporary file, spawns no process and neither
\* reads nor writes an attachment.
C12_NoCertificateDefault ==
    (done.pc = "done" /\ done.fn = "postprocess_pdf_report"
     /\ done.own.matches = 1 /\ done.certificate = NoCertificate)
    => /\ done.ret = Ret("default", done.content, 0)
       /\ done.own.made = {}
       /\ done.own.spawns = 0
       /\ done.own.lookups = {}
       /\ done.own.creates = 0

\* C13: when signing succeeded (bytes were read from the signed file and the
\* naming rule yields a filename) but creating the attachment is refused, so
\* that the store step leaves ir.attachment unchanged, postprocess_pdf_report
\* ends in the signing-save error, which is not the signing-failure error: no
\* normal return, no attachment created, the signer called once only; raised
\* inside _post_pdf's default pipeline, the error is what _post_pdf ends in.
C13_RefusedStoreRaises ==
    [][/\ (pp.pc = "store" /\ attachments' = attachments /\ ~pp.stream
           /\ Truthy(attach_filename_get(pp.ids, certificates[pp.certificate], now')))
          => /\ pp'.pc = "done"
             /\ pp'.ret = Ret("UserError.save", <<>>, 0)
             /\ Raised(pp'.ret)
             /\ pp'.ret.kind # "UserError.failed"
             /\ pp'.returncode = 0
             /\ pp'.own.creates = 0
             /\ pp'.own.invokes = 1
             /\ pp'.own.spawns = 1
       /\ (pp.pc = "done" /\ pp.nested /\ pp.ret.kind = "UserError.save")
          => /\ bp'.pc = "done"
             /\ bp'.ret = pp.ret
             /\ attachments' = attachments]_vars

C13_Witness ==
    /\ PostprocessEnded
    /\ done.ret.kind = "UserError.save"
    /\ done.data = JSignPdf(done.content)
    /\ done.own.creates = 0
    /\ attachments = <<>>

\* ------------------------------- specification of the resolver and the invoker
\* Path strings tried on the resolver: empty and blank ones, relative and
\* absolute ones, padded ones, ones that need normalising.
ResolverPaths ==
    {PathUnset, <<" ">>, <<" ", " ">>, PathKey, PathPassword, PathAbsent,
     <<"x">>, <<" ", "k">>, <<".", "/", "k">>, <<"k", "/">>,
     <<".", ".", "/", "c", "/", "k">>, CertDir \o <<"/", "k">>,
     <<"/", "x", "/", ".", ".", "/", "x">>}

\* Paths stored on the certificate handed to pdf_sign_2.
CertificatePaths == {PathKey, PathPassword, PathAbsent, PathUnset, <<" ">>}

\* The paths that may exist: the certificate directory, files in it, a file
\* elsewhere. A file of the certificate directory exists only if the directory does.
Filesystems ==
    {files \in SUBSET (FullFs \cup {PathAbsent}) :
        (files \cap (FullFs \ {CertDir}) # {}) => CertDir \in files}

\* path names an existing regular file (the certificate directory is not one)
ExistingFile(path, files) ==
    /\ Truthy(strip(path))
    /\ normalize_filepath(path, files) \in files \ {CertDir}

InitInvoker ==
    /\ certificates \in {<<Cert(FALSE, FALSE, {}, "unset", k, pw)>> :
                            k \in CertificatePaths, pw \in CertificatePaths}
    /\ report_type = "qweb-pdf"
    /\ fs \in Filesystems
    /\ undeletable = {}
    /\ attachment_order = "unknown"
    /\ now = 0
    /\ attachments = <<>>
    /\ tmp = {}
    /\ pp = IdleFrame
    /\ bp = IdleFrame
    /\ done = IdleFrame
    /\ calls = 0
    /\ call = NoCall

\* a direct call _normalize_filepath(path)
CallNormalizeFilepath ==
    \E path \in ResolverPaths :
        /\ call' = [NoCall EXCEPT !.op = "_normalize_filepath", !.path = path,
                                  !.read = normalize_filepath(path, fs)]
        /\ UNCHANGED <<Config, attachment_order, now, attachments, tmp, pp, bp, done,
                       calls>>

\* a direct call self.pdf_sign_2(pdf, certificate) on a temporary file holding
\* content; done is the caller's frame as the call leaves it
CallPdfSign2 ==
    \E content \in PdfInputs, run \in ToolRuns :
        LET caller == [AfterTempFile(StartPostprocess(1, content, FALSE), 1)
                          EXCEPT !.certificate = 1]
            r == pdf_sign_2(caller, WriteFile({}, TmpPath(1), content), fs, run)
        IN  /\ done' = r.frame
            /\ tmp' = r.tmp
            /\ call' = [NoCall EXCEPT !.op = "pdf_sign_2", !.cert = 1]
            /\ UNCHANGED <<Config, attachment_order, now, attachments, pp, bp, calls>>

NextInvoker ==
    \/ CallNormalizeFilepath
    \/ CallPdfSign2

SpecInvoker == InitInvoker /\ [][NextInvoker]_vars

\* C14: pdf_sign_2 raises the certificate-not-found error whenever the key
\* store path or the password file path of the certificate does not resolve to
\* an existing file, an empty or unset path included, and then spawns no
\* process.
C14_MissingFileNotFound ==
    (call.op = "pdf_sign_2"
     /\ (\/ ~ExistingFile(certificates[1].path, fs)
         \/ ~ExistingFile(certificates[1].password_file, fs)))
    => /\ done.pc = "done"
       /\ done.ret.kind = "UserError.notfound"
       /\ done.own.spawns = 0
       /\ done.own.made = {TmpPath(1)}

\* C15: _normalize_filepath returns not-found for every empty or blank path
\* whatever exists on disk, and for any other path returns the normalised path
\* (a relative one taken under the certificate directory) if and only if that
\* path exists.
C15_EmptyPathNotFound ==
    (call.op = "_normalize_filepath")
    => IF strip(call.path) = <<>> THEN call.read = <<>>
       ELSE LET full == IF isabs(strip(call.path)) THEN strip(call.path)
                        ELSE CertificatePrefix \o strip(call.path)
            IN  /\ (call.read # <<>>) <=> (normpath(full) \in fs)
                /\ (call.read # <<>>) => call.read = normpath(full)

\* the cleanup loop took frame f to frame g: it did not raise, changed nothing
\* the result is computed from (bytes read, certificate, arguments), counted one
\* logged error per file it could not delete, and deleted each of the two files
\* that exists and may be deleted, whatever happened to the other
CleanupOnlyLogs(f, g) ==
    LET pdf == TmpPath(f.pdf)
        file == [kind \in {"pdf", "signed"} |->
                    IF kind = "pdf" THEN pdf ELSE pdf_signed(pdf)]
        failed == {kind \in {"pdf", "signed"} :
                      ~Exists(tmp, file[kind]) \/ kind \in undeletable}
    IN  /\ g.pc \notin {"cleanup", "done"}
        /\ ~Raised(g.ret)
        /\ [g EXCEPT !.pc = f.pc, !.own.unlink_errors = f.own.unlink_errors] = f
        /\ g.own.unlink_errors = f.own.unlink_errors + Cardinality(failed)
        /\ \A kind \in {"pdf", "signed"} :
              Exists(tmp', file[kind]) <=> (Exists(tmp, file[kind]) /\ kind \in undeletable)
        /\ \A e \in tmp : (e[1] \notin {pdf, pdf_signed(pdf)}) => e \in tmp'
        /\ tmp' \subseteq tmp

\* C16: when deleting either temporary file fails, the failure is only logged:
\* the cleanup of either entry point does not raise, still deletes the other
\* file, and leaves the bytes read and everything else the result and the cache
\* store are computed from as they are when both deletions succeed (the step
\* that follows is the same: store for a caching certificate, else the return).
C16_UnlinkFailureOnlyLogged ==
    [][/\ (pp.pc = "cleanup") =>
            /\ CleanupOnlyLogs(pp, pp')
            /\ pp'.pc = IF certificates[pp.certificate].attachment # "unset"
                        THEN "store" ELSE "super"
       /\ (bp.pc = "cleanup") =>
            /\ CleanupOnlyLogs(bp, bp')
            /\ bp'.pc = "assign"]_vars

C16_Witness ==
    /\ PostprocessEnded
    /\ undeletable = {"pdf"}
    /\ done.own.unlink_errors = 1
    /\ done.ret.kind = "attachment"
    /\ decodestring(attachments[done.ret.att].datas) = JSignPdf(done.content)
    /\ Exists(tmp, TmpPath(done.pdf))
    /\ ~Exists(tmp, pdf_signed(TmpPath(done.pdf)))

\* C17: when an entry point whose certificate matched has run the tool with
\* exit status 0 (no cached copy used), a normal return returns or stores the
\* content of the signed file the tool wrote, never the unsigned input; and if
\* it does not return normally (the tool wrote no file), it ends in a
\* user-facing error, not in an unhandled fault.
C17_SignedOrUserError ==
    (done.pc = "done" /\ done.own.spawns = 1 /\ done.returncode = 0)
    => IF Raised(done.ret)
       THEN done.ret.kind \in {"UserError.notfound", "UserError.failed", "UserError.save"}
       ELSE /\ done.bound
            /\ ~done.stream
            /\ done.data \in {JSignPdf(done.content), <<>>}
            /\ \/ done.ret = Ret("bytes", done.data, 0)
               \/ done.ret = Ret("default", done.data, 0)
               \/ /\ done.ret.kind = "attachment"
                  /\ decodestring(attachments[done.ret.att].datas) = done.data
               \/ done.ret.kind = "False"

\* C18: one _post_pdf request for a single record spawns at most one signer
\* process in total, counting the processes spawned by the calls of
\* postprocess_pdf_report its default pipeline step makes and those of its own
\* signing.
C18_OneSpawnPerRequest ==
    (done.pc = "done" /\ done.fn = "_post_pdf" /\ Len(done.ids) = 1)
    => Total(done).spawns <= 1

\* rows a and b of ir.attachment have the same (filename, model, record id)
SameKey(a, b) ==
    /\ a.datas_fname = b.datas_fname
    /\ a.res_model = b.res_model
    /\ a.res_id = b.res_id

\* C19 as claimed: after any sequence of sequential invocations of
\* postprocess_pdf_report with caching enabled, whatever the signed content,
\* ir.attachment holds at most one row per (filename, model, record id).
C19_OneAttachmentPerKey ==
    \A i, j \in 1..Len(attachments) :
        i # j => ~SameKey(attachments[i], attachments[j])

\* C19 amended: an invocation of postprocess_pdf_report creates an attachment
\* for a (filename, model, record id) that already has one only when the
\* attachment the search finds first for that key has empty content; once that
\* one is non-empty no further attachment is created for the key.
C19_NoDuplicateOfNonEmpty ==
    [][(pp.pc = "store" /\ Len(attachments') = Len(attachments) + 1)
       => LET new == attachments'[Len(attachments')]
              m == {a \in 1..Len(attachments) : SameKey(attachments[a], new)}
              found == IF attachment_order = "id desc" THEN Max(m) ELSE Min(m)
          IN  /\ new.res_id = pp.ids[1]
              /\ new.datas = encodebytes(pp.data)
              /\ m # {} => decodestring(attachments[found].datas) = <<>>]_vars

C19_Witness ==
    /\ PostprocessEnded
    /\ calls = 2
    /\ Len(attachments) = 1
    /\ done.own.lookups = {attachments[1].datas_fname}
    /\ attachments[1].res_id = done.ids[1]
    /\ done.ret = Ret("bytes", decodestring(attachments[1].datas), 0)
    /\ done.ret.data # <<>>

\* ------------------------------------ specification of concurrent invocations
\* A postprocess_pdf_report invocation (frame pp) and a _post_pdf invocation
\* (frame bp) started by two requests of the host and running interleaved,
\* step by step, on the same temporary directory and attachments.
ConcurrentCerts ==
    {Cert(FALSE, FALSE, {}, rule, PathKey, PathPassword) : rule \in {"unset", "name"}}

InitConcurrent ==
    /\ certificates \in {<<c>> : c \in ConcurrentCerts}
    /\ report_type = "qweb-pdf"
    /\ fs = FullFs
    /\ undeletable = {}
    /\ attachment_order = "unknown"
    /\ now = 0
    /\ attachments = <<>>
    /\ tmp = {}
    /\ pp = IdleFrame
    /\ bp = IdleFrame
    /\ done = IdleFrame
    /\ calls = 0
    /\ call = NoCall

RequestPostprocess ==
    \E record \in Records, content \in PdfInputs :
        /\ pp.pc = "idle"
        /\ calls < MaxCalls
        /\ calls' = calls + 1
        /\ pp' = StartPostprocess(record, content, FALSE)
        /\ UNCHANGED <<Config, attachment_order, now, attachments, tmp, bp, done, call>>

RequestPostPdf ==
    \E content \in PdfInputs, record \in Records :
        /\ bp.pc = "idle"
        /\ calls < MaxCalls
        /\ calls' = calls + 1
        /\ bp' = StartPostPdf(content, <<record>>, FALSE)
        /\ UNCHANGED <<Config, attachment_order, now, attachments, tmp, pp, done, call>>

NextConcurrent ==
    \/ RequestPostprocess
    \/ PP_Match
    \/ PP_Lookup
    \/ PP_TempFile
    \/ PP_Sign
    \/ PP_Read
    \/ PP_Cleanup
    \/ PP_Store
    \/ PP_Super
    \/ PP_Exit
    \/ RequestPostPdf
    \/ BP_SuperReturn
    \/ BP_Match
    \/ BP_TempFile
    \/ BP_Sign
    \/ BP_Read
    \/ BP_Cleanup
    \/ BP_Assign
    \/ BP_Return
    \/ BP_Exit

SpecConcurrent == InitConcurrent /\ [][NextConcurrent]_vars

\* the files at the two paths of the invocation of frame f, in directory dir
OwnFiles(f, dir) ==
    {e \in dir : e[1] \in {TmpPath(f.pdf), pdf_signed(TmpPath(f.pdf))}}

\* f is between the creation of its temporary file and the end of its cleanup
UsingFiles(f) == f.pc \in {"sign", "read", "cleanup"}

====
